---- MODULE Spec2Model ----
(***************************************************************************)
(* A model of the sharded map of syncmap.go: a fixed array of shards, each  *)
(* a Go map guarded by its own sync.RWMutex, the keyed operations routed by *)
(* fnv32, the cross-shard operations (Size, Flush, Pop) and the traversals  *)
(* (EachKeyWithBreak, EachItemWithBreak, EachItem, IterItems).              *)
(*                                                                         *)
(* Every goroutine is a process with a program counter; one action is one   *)
(* atomic step of the code (a lock call, the body of a critical section up  *)
(* to its unlock, one round of a range loop).                               *)
(***************************************************************************)
EXTENDS Integers, Sequences, FiniteSets, TLC

----------------------------------------------------------------------------
(* Bounds of the model and constants of the program.                       *)

\* Values stored are 1..MaxVal; Nil stands for Go's nil interface value.
MaxVal == 2
\* Goroutines that IterItems can have spawned and not yet reaped.
MaxProducers == 1
\* const defaultShardCount
defaultShardCount == 128
\* The 32-bit seed 2166136261 = SeedHi * 2^16 + SeedLo
SeedHi == 33052
SeedLo == 40389
\* prime32 = 16777619 = PrimeHi * 2^16 + PrimeLo
PrimeHi == 256
PrimeLo == 403
\* 2^16: a uint32 is kept as two 16-bit limbs <<hi, lo>>
Limb == 2^16

Nil == 0
Values == 1..MaxVal
\* Keys are Go strings, modelled as their byte sequences: "a", "b", "ab".
Keys == {<<97>>, <<98>>, <<97, 98>>}
\* The arguments NewWithShard is called with.
ShardArgs == {2, 4}
\* Caller goroutines, and the goroutines IterItems spawns.
Threads == {1, 2}
Producers == {10 + j : j \in 1..MaxProducers}
Procs == Threads \cup Producers
NoProc == 0

----------------------------------------------------------------------------
(* Bit operations on naturals, as Go's ^ and & on unsigned integers.       *)

RECURSIVE BitXor(_, _)
BitXor(a, b) ==
    IF a = 0 THEN b
    ELSE IF b = 0 THEN a
    ELSE (((a % 2) + (b % 2)) % 2) + (2 * BitXor(a \div 2, b \div 2))

RECURSIVE BitAnd(_, _)
BitAnd(a, b) ==
    IF a = 0 \/ b = 0 THEN 0
    ELSE ((a % 2) * (b % 2)) + (2 * BitAnd(a \div 2, b \div 2))

\* hash *= prime32, in uint32 arithmetic, on limbs.
MulPrime(h) ==
    LET lo == h[2] * PrimeLo
        hi == (h[1] * PrimeLo) + (h[2] * PrimeHi) + (lo \div Limb)
    IN  <<hi % Limb, lo % Limb>>

\* hash ^= uint32(key[i])
XorByte(h, b) == <<h[1], BitXor(h[2], b)>>

RECURSIVE fnv32From(_, _, _)
fnv32From(h, k, i) ==
    IF i > Len(k) THEN h
    ELSE fnv32From(XorByte(MulPrime(h), k[i]), k, i + 1)

fnv32(k) == fnv32From(<<SeedHi, SeedLo>>, k, 1)

\* Mutant: the mask is shardCount, not shardCount - 1.
MaskIndexCount(h, n) ==
    (BitAnd(h[1], n \div Limb) * Limb) + BitAnd(h[2], n % Limb)

\* fnv32(key) & uint32(shardCount - 1)
MaskIndex(h, n) ==
    (BitAnd(h[1], (n - 1) \div Limb) * Limb) + BitAnd(h[2], (n - 1) % Limb)

NewWithShard(n) == IF n = 0 THEN defaultShardCount ELSE n

----------------------------------------------------------------------------
(* Go maps: functions with a finite domain of keys.                        *)

EmptyMap == [k \in {} |-> Nil]
MapLen(m) == Cardinality(DOMAIN m)
MapSet(m, k, v) == [x \in (DOMAIN m) \cup {k} |-> IF x = k THEN v ELSE m[x]]
MapDelete(m, k) == [x \in (DOMAIN m) \ {k} |-> m[x]]
\* v, ok := m[k]
MapGet(m, k) == IF k \in DOMAIN m THEN <<m[k], TRUE>> ELSE <<Nil, FALSE>>

----------------------------------------------------------------------------
VARIABLES
    shardCount,  \* SyncMap.shardCount
    items,       \* items[i]: ShardMap.items of shards[i]
    readers,     \* readers[i]: goroutines holding shard i's read lock
    writer,      \* writer[i]: the goroutine holding shard i's write lock
    pending,     \* pending[i]: goroutines blocked in shard i's Lock()
    pc,          \* where each goroutine is
    op,          \* the operation each goroutine is running
    key, val,    \* its arguments
    idx,         \* the shard index of its loop (Size, Flush, Each*, Pop)
    size,        \* the local size of Size and Flush
    todo,        \* keys its range loop has still to yield
    stop,        \* the local stop of Each*WithBreak
    cur,         \* the item handed to the visitor / being sent
    ret,         \* what the operation returned
    chan,        \* chan[p]: the channel of producer p
    hnd,         \* hnd[t]: the producer whose channel thread t holds
    \* History variables: they record, and no action reads them.
    track,       \* whether this specification keeps the history
    pre,         \* pre[g]: the container's content when g's operation began
    last,        \* last[k]: the value of the last Set of k, Nil after Delete
    flushedOrPopped, \* a Flush or a Pop was called
    visited,     \* visited[g]: <<item, visitor's answer>> per visitor call
    recvd,       \* recvd[t]: the items thread t received from its channel
    \* Observations of concurrent runs: set by Observe from each step.
    watch,       \* whether this specification keeps the observations
    seen,        \* seen[g]: the items g's traversal has visited so far
    held,        \* held[t]: the entry counts the container had during t's Size
    lens,        \* lens[t]: the length of each shard when t's Size locked it
    fate,        \* fate[v]: the operations that removed the entry of value v
    popRet,      \* the values of the entries returned by Pop, in order
    flushRet     \* the sum of the values returned by Flush

conVars == <<shardCount, items>>
lockVars == <<readers, writer, pending>>
argVars == <<op, key, val>>
locVars == <<idx, size, todo, stop, cur>>
chanVars == <<chan, hnd>>
histVars == <<track, pre, last, flushedOrPopped, visited, recvd>>
obsVars == <<seen, held, lens, fate, popRet, flushRet>>
codeVars == <<shardCount, items, readers, writer, pending, pc, op, key, val,
              idx, size, todo, stop, cur, ret, chan, hnd>>
vars == <<shardCount, items, readers, writer, pending, pc, op, key, val,
          idx, size, todo, stop, cur, ret, chan, hnd,
          track, pre, last, flushedOrPopped, visited, recvd,
          watch, seen, held, lens, fate, popRet, flushRet>>

Shards == 0..(shardCount - 1)
NoRet == <<>>
NoItem == <<>>

\* m.locate(key): the index of the shard
locate(k) == MaskIndex(fnv32(k), shardCount)

----------------------------------------------------------------------------
(* sync.RWMutex: a writer excludes everyone, and a goroutine blocked in    *)
(* Lock() keeps new readers out.                                           *)

\* Mutant: one lock for the whole container, a reader waits for any writer.
CanRLockGlobal(i) ==
    \A j \in Shards : writer[j] = NoProc /\ pending[j] = {}

CanRLock(i) == writer[i] = NoProc /\ pending[i] = {}
\* Mutant: Lock() does not wait for the readers to leave.
CanLockDespiteReaders(i) == writer[i] = NoProc

CanLock(i) == writer[i] = NoProc /\ readers[i] = {}

\* Mutant: the RLock() is missing.
RLockSkipped(g, i) == UNCHANGED <<readers, writer, pending>>

\* shard.RLock(), once it returns
RLock(g, i) ==
    /\ CanRLock(i)
    /\ readers' = [readers EXCEPT ![i] = @ \cup {g}]
    /\ UNCHANGED <<writer, pending>>

\* Mutant: the RUnlock() is missing.
RUnlockMissing(g, i) == UNCHANGED <<readers, writer, pending>>

\* shard.RUnlock()
RUnlock(g, i) ==
    /\ readers' = [readers EXCEPT ![i] = @ \ {g}]
    /\ UNCHANGED <<writer, pending>>

\* shard.Lock() is called: it returns at once when the lock is free and no
\* other writer waits, and blocks otherwise.
LockCall(g, i) ==
    IF CanLock(i) /\ pending[i] = {}
    THEN /\ writer' = [writer EXCEPT ![i] = g]
         /\ UNCHANGED <<readers, pending>>
    ELSE /\ pending' = [pending EXCEPT ![i] = @ \cup {g}]
         /\ UNCHANGED <<readers, writer>>

LockTaken(g, i) == writer'[i] = g

\* a blocked shard.Lock() returns
LockWake(g, i) ==
    /\ g \in pending[i]
    /\ CanLock(i)
    /\ writer' = [writer EXCEPT ![i] = g]
    /\ pending' = [pending EXCEPT ![i] = @ \ {g}]
    /\ UNCHANGED readers

\* shard.Unlock()
Unlock(g, i) ==
    /\ writer' = [writer EXCEPT ![i] = NoProc]
    /\ UNCHANGED <<readers, pending>>

----------------------------------------------------------------------------
InitCode(args) ==
    /\ shardCount \in {NewWithShard(n) : n \in args}
    /\ items = [i \in 0..(shardCount - 1) |-> EmptyMap]
    /\ readers = [i \in 0..(shardCount - 1) |-> {}]
    /\ writer = [i \in 0..(shardCount - 1) |-> NoProc]
    /\ pending = [i \in 0..(shardCount - 1) |-> {}]
    /\ pc = [g \in Procs |-> IF g \in Threads THEN "idle" ELSE "free"]
    /\ op = [g \in Procs |-> "none"]
    /\ key = [g \in Procs |-> <<>>]
    /\ val = [g \in Procs |-> Nil]
    /\ idx = [g \in Procs |-> 0]
    /\ size = [g \in Procs |-> 0]
    /\ todo = [g \in Procs |-> {}]
    /\ stop = [g \in Procs |-> FALSE]
    /\ cur = [g \in Procs |-> NoItem]
    /\ ret = [g \in Procs |-> NoRet]
    /\ chan = [p \in Producers |-> "nil"]
    /\ hnd = [t \in Threads |-> NoProc]

InitHist ==
    /\ pre = [g \in Procs |-> <<>>]
    /\ last = [k \in Keys |-> Nil]
    /\ flushedOrPopped = FALSE
    /\ visited = [g \in Procs |-> <<>>]
    /\ recvd = [t \in Threads |-> <<>>]
    /\ seen = [g \in Procs |-> {}]
    /\ held = [t \in Threads |-> {}]
    /\ lens = [t \in Threads |-> <<>>]
    /\ fate = [v \in Values |-> <<>>]
    /\ popRet = <<>>
    /\ flushRet = 0


----------------------------------------------------------------------------
(* Recording the history, in the specifications that keep it.              *)

\* The observations are left to Observe where they are kept.
Unwatched == watch' = watch /\ (IF watch THEN TRUE ELSE UNCHANGED obsVars)

Hist(newPre, newLast, newFP, newVisited, newRecvd) ==
    /\ track' = track
    /\ Unwatched
    /\ IF track
       THEN /\ pre' = newPre
            /\ last' = newLast
            /\ flushedOrPopped' = newFP
            /\ visited' = newVisited
            /\ recvd' = newRecvd
       ELSE UNCHANGED <<pre, last, flushedOrPopped, visited, recvd>>

NoHist == UNCHANGED histVars /\ Unwatched

\* last, once a Set (v a value) or a Delete (v = Nil) of k has taken effect;
\* it is kept only as long as no Flush and no Pop was called.
LastAfter(k, v) == IF flushedOrPopped THEN last ELSE [last EXCEPT ![k] = v]

----------------------------------------------------------------------------
(* The operations.                                                         *)

KeyedOps == {"Get", "Has", "Set", "Delete"}
ScanOps == {"Size", "Flush", "Pop"}
EachOps == {"EachKeyWithBreak", "EachItemWithBreak", "EachItem"}
AllOps == KeyedOps \cup ScanOps \cup EachOps \cup {"IterItems"}

\* Mutant: every key is routed to the first shard.
FirstIdxZero(o, k) == 0

\* The first statement of each operation: where it goes first, and the
\* shard it works on (shard := m.locate(key), or the first of the loop).
FirstPc(o) ==
    CASE o \in {"Get", "Has", "Size", "Pop"} \cup EachOps -> "rlock"
      [] o \in {"Set", "Delete", "Flush"} -> "lock"

FirstIdx(o, k) == IF o \in KeyedOps THEN locate(k) ELSE 0

\* A caller goroutine calls Get, Has, Set, Delete, Size, Flush, Pop or one of
\* the callback traversals.
Call(t, ops, keys, vals) ==
    /\ pc[t] = "idle"
    /\ hnd[t] = NoProc
    /\ \E o \in ops \ {"IterItems"} :
       \E k \in (IF o \in KeyedOps THEN keys ELSE {<<>>}) :
       \E v \in (IF o = "Set" THEN vals ELSE {Nil}) :
          /\ op' = [op EXCEPT ![t] = o]
          /\ key' = [key EXCEPT ![t] = k]
          /\ val' = [val EXCEPT ![t] = v]
          /\ idx' = [idx EXCEPT ![t] = FirstIdx(o, k)]
          /\ pc' = [pc EXCEPT ![t] = FirstPc(o)]
          /\ Hist([pre EXCEPT ![t] = items],
                  IF o \in {"Flush", "Pop"} THEN [x \in Keys |-> Nil] ELSE last,
                  flushedOrPopped \/ o \in {"Flush", "Pop"},
                  [visited EXCEPT ![t] = <<>>], recvd)
    /\ UNCHANGED <<conVars, lockVars, size, todo, stop, cur, ret, chanVars>>

\* The channel t has just found closed, if its range over IterItems() is what
\* returns (a call made in the body of the loop keeps the channel).
Drained(t) == IF op[t] = "IterItems" THEN hnd[t] ELSE NoProc

\* The operation has returned (or panicked, and the caller recovered): the
\* goroutine is free for its next call.  A drained channel is let go.
Return(t) ==
    /\ pc[t] \in {"ret", "panic"}
    /\ pc' = [g \in Procs |->
                IF g = t THEN "idle"
                ELSE IF g = Drained(t) /\ pc[g] = "done" THEN "free"
                ELSE pc[g]]
    /\ op' = [g \in Procs |->
                IF g = t \/ (g = Drained(t) /\ pc[g] = "done") THEN "none"
                ELSE op[g]]
    /\ chan' = [p \in Producers |->
                  IF p = Drained(t) /\ pc[p] = "done" THEN "nil" ELSE chan[p]]
    /\ hnd' = [hnd EXCEPT ![t] = IF Drained(t) # NoProc THEN NoProc ELSE @]
    /\ key' = [key EXCEPT ![t] = <<>>]
    /\ val' = [val EXCEPT ![t] = Nil]
    /\ stop' = [stop EXCEPT ![t] = FALSE]
    /\ ret' = [ret EXCEPT ![t] = NoRet]
    /\ Hist([g \in Procs |->
                IF g = t \/ g = Drained(t) THEN <<>> ELSE pre[g]],
            last, flushedOrPopped,
            [g \in Procs |->
                IF g = t \/ g = Drained(t) THEN <<>> ELSE visited[g]],
            [recvd EXCEPT ![t] = IF Drained(t) # NoProc THEN <<>> ELSE @])
    /\ UNCHANGED <<conVars, lockVars, idx, size, todo, cur>>

\* shard.RLock() returns: Get and Has go on to read, Size and Pop's Size to
\* count, a traversal to range over the shard's map.
RLockStep(g) ==
    /\ pc[g] = "rlock"
    /\ RLock(g, idx[g])
    /\ pc' = [pc EXCEPT ![g] = IF op[g] \in {"Get", "Has"} THEN "read"
                               ELSE IF op[g] \in {"Size", "Pop"} THEN "count"
                               ELSE "range"]
    /\ todo' = [todo EXCEPT ![g] = IF op[g] \in EachOps \cup {"IterItems"}
                                   THEN DOMAIN items[idx[g]] ELSE {}]
    /\ UNCHANGED <<conVars, argVars, idx, size, stop, cur, ret, chanVars>>
    /\ NoHist

\* shard.Lock() is called.
LockStep(g) ==
    /\ pc[g] = "lock"
    /\ LockCall(g, idx[g])
    /\ pc' = [pc EXCEPT ![g] = IF LockTaken(g, idx[g]) THEN "write" ELSE "wait"]
    /\ UNCHANGED <<conVars, argVars, locVars, ret, chanVars>>
    /\ NoHist

\* A blocked shard.Lock() returns.
LockWakeStep(g) ==
    /\ pc[g] = "wait"
    /\ LockWake(g, idx[g])
    /\ pc' = [pc EXCEPT ![g] = "write"]
    /\ UNCHANGED <<conVars, argVars, locVars, ret, chanVars>>
    /\ NoHist

\* What Get and Has return from the lookup value, ok = shard.items[key].
GetResult(o, r) == IF o = "Has" THEN <<r[2]>> ELSE r

\* Get: value, ok = shard.items[key]; shard.RUnlock(); return
GetRead(t) ==
    /\ pc[t] = "read"
    /\ ret' = [ret EXCEPT ![t] = GetResult(op[t], MapGet(items[idx[t]], key[t]))]
    /\ RUnlock(t, idx[t])
    /\ idx' = [idx EXCEPT ![t] = 0]
    /\ pc' = [pc EXCEPT ![t] = "ret"]
    /\ UNCHANGED <<conVars, argVars, size, todo, stop, cur, chanVars>>
    /\ NoHist

\* shard.items[key] = value
SetNotLock(m, k, v) == MapSet(m, k, v)

\* Set: shard.items[key] = value; shard.Unlock()
SetWrite(t) ==
    /\ pc[t] = "write" /\ op[t] = "Set"
    /\ items' = [items EXCEPT ![idx[t]] = SetNotLock(@, key[t], val[t])]
    /\ Unlock(t, idx[t])
    /\ idx' = [idx EXCEPT ![t] = 0]
    /\ pc' = [pc EXCEPT ![t] = "ret"]
    /\ Hist(pre, LastAfter(key[t], val[t]), flushedOrPopped,
            visited, recvd)
    /\ UNCHANGED <<shardCount, argVars, size, todo, stop, cur, ret, chanVars>>

\* Mutants: the delete is missing; the delete empties the map.
DeleteNotLockMissing(m, k) == m
DeleteNotLockAll(m, k) == EmptyMap

\* Mutant: a delete of an absent key removes some other key.
DeleteNotLockAny(m, k) ==
    IF k \in DOMAIN m \/ DOMAIN m = {} THEN MapDelete(m, k)
    ELSE MapDelete(m, CHOOSE j \in DOMAIN m : TRUE)

\* delete(shard.items, key)
DeleteNotLock(m, k) == MapDelete(m, k)

\* Delete: delete(shard.items, key); shard.Unlock()
DeleteWrite(t) ==
    /\ pc[t] = "write" /\ op[t] = "Delete"
    /\ items' = [items EXCEPT ![idx[t]] = DeleteNotLock(@, key[t])]
    /\ Unlock(t, idx[t])
    /\ idx' = [idx EXCEPT ![t] = 0]
    /\ pc' = [pc EXCEPT ![t] = "ret"]
    /\ Hist(pre, LastAfter(key[t], Nil), flushedOrPopped,
            visited, recvd)
    /\ UNCHANGED <<shardCount, argVars, size, todo, stop, cur, ret, chanVars>>

\* Mutant: the test is m.Size() < 0.
PopIsEmptyNegative(n) == n < 0

\* if m.Size() == 0 { panic("syncmap: map is empty") }
PopIsEmpty(n) == n = 0

\* Mutant: size = len(shard.items).
AddLenAssign(n, m) == MapLen(m)

\* size += len(shard.items), in Size and in Flush
AddLen(n, m) == n + MapLen(m)

\* Size (also the m.Size() of Pop): size += len(shard.items);
\* shard.RUnlock(); then the next shard, or the end of the loop.
SizeCount(t) ==
    /\ pc[t] = "count"
    /\ RUnlock(t, idx[t])
    /\ LET n == AddLen(size[t], items[idx[t]])
       IN  IF idx[t] + 1 < shardCount
           THEN /\ idx' = [idx EXCEPT ![t] = @ + 1]
                /\ size' = [size EXCEPT ![t] = n]
                /\ pc' = [pc EXCEPT ![t] = "rlock"]
                /\ ret' = ret
           ELSE /\ idx' = [idx EXCEPT ![t] = 0]
                /\ size' = [size EXCEPT ![t] = 0]
                /\ IF op[t] = "Size"
                   THEN /\ pc' = [pc EXCEPT ![t] = "ret"]
                        /\ ret' = [ret EXCEPT ![t] = <<n>>]
                   ELSE /\ pc' = [pc EXCEPT ![t] =
                                    IF PopIsEmpty(n) THEN "panic" ELSE "pick"]
                        /\ ret' = ret
    /\ UNCHANGED <<conVars, argVars, todo, stop, cur, chanVars>>
    /\ NoHist

\* Mutant: the map is not replaced.
FlushReplaceMissing(m) == m

\* shard.items = make(map[string]interface{})
FlushReplace(m) == EmptyMap

\* Flush: size += len(shard.items); shard.items = make(...); shard.Unlock();
\* then the next shard, or return size.
FlushWrite(t) ==
    /\ pc[t] = "write" /\ op[t] = "Flush"
    /\ items' = [items EXCEPT ![idx[t]] = FlushReplace(@)]
    /\ Unlock(t, idx[t])
    /\ LET n == AddLen(size[t], items[idx[t]])
       IN  IF idx[t] + 1 < shardCount
           THEN /\ idx' = [idx EXCEPT ![t] = @ + 1]
                /\ size' = [size EXCEPT ![t] = n]
                /\ pc' = [pc EXCEPT ![t] = "lock"]
                /\ ret' = ret
           ELSE /\ idx' = [idx EXCEPT ![t] = 0]
                /\ size' = [size EXCEPT ![t] = 0]
                /\ pc' = [pc EXCEPT ![t] = "ret"]
                /\ ret' = [ret EXCEPT ![t] = <<n>>]
    /\ UNCHANGED <<shardCount, argVars, todo, stop, cur, chanVars>>
    /\ NoHist

\* Pop: idx := rand.Intn(n); shard := m.shards[idx]
PopPick(t) ==
    /\ pc[t] = "pick"
    /\ \E i \in Shards : idx' = [idx EXCEPT ![t] = i]
    /\ pc' = [pc EXCEPT ![t] = "lock"]
    /\ UNCHANGED <<conVars, lockVars, argVars, size, todo, stop, cur, ret,
                   chanVars>>
    /\ NoHist

\* Mutant: Pop gives up with the panic when the shard it locked is empty.
PopRetryPanic == "panic"

\* Pop: the locked shard is empty, and the loop for !found goes round again.
PopRetry == "pick"

\* Mutant: Pop returns an entry and leaves it in the map.
PopWriteKeeps(t) ==
    /\ pc[t] = "write" /\ op[t] = "Pop"
    /\ Unlock(t, idx[t])
    /\ IF MapLen(items[idx[t]]) > 0
       THEN \E k \in DOMAIN items[idx[t]] :
               /\ ret' = [ret EXCEPT ![t] = <<k, items[idx[t]][k]>>]
               /\ pc' = [pc EXCEPT ![t] = "ret"]
               /\ idx' = [idx EXCEPT ![t] = 0]
       ELSE /\ pc' = [pc EXCEPT ![t] = "pick"]
            /\ UNCHANGED <<ret, idx>>
    /\ UNCHANGED <<conVars, argVars, size, todo, stop, cur, chanVars>>
    /\ NoHist

\* Pop, under the lock: if len(shard.items) > 0, take the entry the range
\* yields first and delete it; shard.Unlock(); return it, or try again.
PopWrite(t) ==
    /\ pc[t] = "write" /\ op[t] = "Pop"
    /\ Unlock(t, idx[t])
    /\ IF MapLen(items[idx[t]]) > 0
       THEN \E k \in DOMAIN items[idx[t]] :
               /\ ret' = [ret EXCEPT ![t] = <<k, items[idx[t]][k]>>]
               /\ items' = [items EXCEPT ![idx[t]] = DeleteNotLock(@, k)]
               /\ pc' = [pc EXCEPT ![t] = "ret"]
               /\ idx' = [idx EXCEPT ![t] = 0]
       ELSE /\ pc' = [pc EXCEPT ![t] = PopRetry]
            /\ UNCHANGED <<items, ret, idx>>
    /\ UNCHANGED <<shardCount, argVars, size, todo, stop, cur, chanVars>>
    /\ NoHist

----------------------------------------------------------------------------
(* The traversals.                                                         *)

\* The Item (or the key) the visitor is called with.
ItemOf(o, m, k) == IF o = "EachKeyWithBreak" THEN <<k>> ELSE <<k, m[k]>>

\* What a visitor may answer: EachItem's wrapper f always returns true.
Answers(o) == IF o = "EachItem" THEN {TRUE} ELSE BOOLEAN

\* Mutant: the break is missing.
AfterVisitNoBreak(r) == "range"

\* if !iter(...) { stop = true; break }
AfterVisit(r) == IF r THEN "range" ELSE "unlock"

\* Mutant: the loop over the shards ends one shard early.
GoesOnShort(stopped, i) == ~stopped /\ i + 2 < shardCount

\* shard.RUnlock(); if stop { break }: whether the outer loop goes on
GoesOn(stopped, i) == ~stopped /\ i + 1 < shardCount

\* One round of the range over shard.items in a callback traversal: the map
\* yields a key it has not yielded yet, and the visitor is called with it.
EachVisit(t) ==
    /\ pc[t] = "range" /\ t \in Threads
    /\ \E k \in todo[t] : \E r \in Answers(op[t]) :
          /\ todo' = [todo EXCEPT ![t] = @ \ {k}]
          /\ stop' = [stop EXCEPT ![t] = @ \/ ~r]
          /\ pc' = [pc EXCEPT ![t] = AfterVisit(r)]
          /\ Hist(pre, last, flushedOrPopped,
                  [visited EXCEPT ![t] =
                      Append(@, <<ItemOf(op[t], items[idx[t]], k), r>>)],
                  recvd)
    /\ UNCHANGED <<conVars, lockVars, argVars, idx, size, cur, ret, chanVars>>

\* Mutant: the send does not wait for a receiver (the channel has room).
EachSendBuffered(p) ==
    /\ pc[p] = "range" /\ p \in Producers
    /\ \E k \in todo[p] : todo' = [todo EXCEPT ![p] = @ \ {k}]
    /\ NoHist
    /\ UNCHANGED <<conVars, lockVars, argVars, pc, idx, size, stop, cur, ret,
                   chanVars>>

\* Mutant: the read lock is given back before the send.
EachSendUnlocked(p) ==
    /\ pc[p] = "range" /\ p \in Producers
    /\ \E k \in todo[p] :
          /\ todo' = [todo EXCEPT ![p] = @ \ {k}]
          /\ cur' = [cur EXCEPT ![p] = ItemOf(op[p], items[idx[p]], k)]
    /\ pc' = [pc EXCEPT ![p] = "send"]
    /\ readers' = [readers EXCEPT ![idx[p]] = @ \ {p}]
    /\ NoHist
    /\ UNCHANGED <<conVars, writer, pending, argVars, idx, size, stop, ret,
                   chanVars>>

\* The same round in the goroutine of IterItems: the visitor is ch <- *item,
\* which blocks until the item is received.
EachSend(p) ==
    /\ pc[p] = "range" /\ p \in Producers
    /\ \E k \in todo[p] :
          /\ todo' = [todo EXCEPT ![p] = @ \ {k}]
          /\ cur' = [cur EXCEPT ![p] = ItemOf(op[p], items[idx[p]], k)]
          /\ pc' = [pc EXCEPT ![p] = "send"]
          /\ Hist(pre, last, flushedOrPopped,
                  [visited EXCEPT ![p] =
                      Append(@, <<ItemOf(op[p], items[idx[p]], k), TRUE>>)],
                  recvd)
    /\ UNCHANGED <<conVars, lockVars, argVars, idx, size, stop, ret, chanVars>>

\* The range is over, or was left by break: shard.RUnlock(), then the next
\* shard or the end of the traversal.
EachUnlock(g) ==
    /\ \/ pc[g] = "unlock"
       \/ pc[g] = "range" /\ todo[g] = {}
    /\ RUnlock(g, idx[g])
    /\ todo' = [todo EXCEPT ![g] = {}]
    /\ IF GoesOn(stop[g], idx[g])
       THEN /\ idx' = [idx EXCEPT ![g] = @ + 1]
            /\ pc' = [pc EXCEPT ![g] = "rlock"]
       ELSE /\ idx' = [idx EXCEPT ![g] = 0]
            /\ pc' = [pc EXCEPT ![g] = IF g \in Producers THEN "close" ELSE "ret"]
    /\ UNCHANGED <<conVars, argVars, size, stop, cur, ret, chanVars>>
    /\ NoHist

\* IterItems: ch := make(chan Item); go func() {...}(); return ch
\* (the new goroutine takes the first identity that is free)
IterItems(t, ops) ==
    /\ pc[t] = "idle"
    /\ hnd[t] = NoProc
    /\ "IterItems" \in ops
    /\ \E p \in Producers :
          /\ pc[p] = "free"
          /\ \A q \in Producers : pc[q] = "free" => p <= q
          /\ chan' = [chan EXCEPT ![p] = "open"]
          /\ hnd' = [hnd EXCEPT ![t] = p]
          /\ pc' = [pc EXCEPT ![p] = "rlock"]
          /\ op' = [op EXCEPT ![p] = "IterItems"]
          /\ Hist([pre EXCEPT ![p] = items], last, flushedOrPopped,
                  [visited EXCEPT ![p] = <<>>], [recvd EXCEPT ![t] = <<>>])
    /\ UNCHANGED <<conVars, lockVars, key, val, locVars, ret>>

\* The consumer receives from the channel the item the producer is sending:
\* the unbuffered channel hands it over and both go on.
Recv(t) ==
    /\ pc[t] = "idle"
    /\ hnd[t] # NoProc
    /\ pc[hnd[t]] = "send"
    /\ chan[hnd[t]] = "open"
    /\ pc' = [pc EXCEPT ![hnd[t]] = "range"]
    /\ cur' = [cur EXCEPT ![hnd[t]] = NoItem]
    /\ Hist(pre, last, flushedOrPopped, visited,
            [recvd EXCEPT ![t] = Append(@, cur[hnd[t]])])
    /\ UNCHANGED <<conVars, lockVars, argVars, idx, size, todo, stop, ret,
                   chanVars>>

\* The consumer receives from the closed channel: its range loop is over.
RecvClosed(t) ==
    /\ pc[t] = "idle"
    /\ hnd[t] # NoProc
    /\ chan[hnd[t]] = "closed"
    /\ pc' = [pc EXCEPT ![t] = "ret"]
    /\ op' = [op EXCEPT ![t] = "IterItems"]
    /\ ret' = [ret EXCEPT ![t] = <<Nil, FALSE>>]
    /\ UNCHANGED <<conVars, lockVars, key, val, locVars, chanVars>>
    /\ NoHist

\* The consumer stops receiving and lets the channel go.
Abandon(t) ==
    /\ pc[t] = "idle"
    /\ hnd[t] # NoProc
    /\ chan[hnd[t]] = "open"
    /\ hnd' = [hnd EXCEPT ![t] = NoProc]
    /\ Hist(pre, last, flushedOrPopped, visited, [recvd EXCEPT ![t] = <<>>])
    /\ UNCHANGED <<conVars, lockVars, pc, argVars, locVars, ret, chan>>

\* Mutant: the close(ch) is missing.
IterCloseMissing(p) ==
    /\ pc[p] = "close"
    /\ pc' = [pc EXCEPT ![p] = "done"]
    /\ UNCHANGED <<conVars, lockVars, argVars, locVars, ret, chanVars>>
    /\ NoHist

\* close(ch), and the goroutine ends.
IterClose(p) ==
    /\ pc[p] = "close"
    /\ chan[p] = "open"
    /\ chan' = [chan EXCEPT ![p] = "closed"]
    /\ pc' = [pc EXCEPT ![p] = "done"]
    /\ UNCHANGED <<conVars, lockVars, argVars, locVars, ret, hnd>>
    /\ NoHist

----------------------------------------------------------------------------
(* The specifications.                                                     *)

\* The steps of a caller goroutine inside an operation.
ThreadStep(t) ==
    \/ RLockStep(t)
    \/ LockStep(t)
    \/ LockWakeStep(t)
    \/ GetRead(t)
    \/ SetWrite(t)
    \/ DeleteWrite(t)
    \/ SizeCount(t)
    \/ FlushWrite(t)
    \/ PopPick(t)
    \/ PopWrite(t)
    \/ EachVisit(t)
    \/ EachUnlock(t)
    \/ Return(t)
    \/ Recv(t)
    \/ RecvClosed(t)

\* The steps of the goroutine IterItems started.
ProducerStep(p) ==
    \/ RLockStep(p)
    \/ EachSend(p)
    \/ EachUnlock(p)
    \/ IterClose(p)

\* One caller that drains every channel it asks for: nothing is concurrent
\* but the goroutine of its own IterItems, and no Lock() ever has to wait.
SeqThreads == {1}

InitSeq == InitCode(ShardArgs) /\ InitHist /\ track = TRUE /\ watch = FALSE

NextSeq ==
    \/ \E t \in SeqThreads :
          \/ Call(t, AllOps, Keys, Values)
          \/ IterItems(t, AllOps)
          \/ RLockStep(t)
          \/ LockStep(t)
          \/ GetRead(t)
          \/ SetWrite(t)
          \/ DeleteWrite(t)
          \/ SizeCount(t)
          \/ FlushWrite(t)
          \/ PopPick(t)
          \/ PopWrite(t)
          \/ EachVisit(t)
          \/ EachUnlock(t)
          \/ Return(t)
          \/ Recv(t)
          \/ RecvClosed(t)
    \/ \E p \in Producers : ProducerStep(p)

SpecSeq == InitSeq /\ [][NextSeq]_vars

\* Every caller runs every operation, in any interleaving, and may let a
\* channel go undrained.  Neither the values stored nor the number of keys
\* in a shard play a part in the locking: one value, and one key for each
\* of two shards ("a" and "b"), are enough here.
ConcShardArgs == {2}
ConcKeys == {<<97>>, <<98>>}
ConcValues == {1}
Init ==
    InitCode(ConcShardArgs) /\ InitHist /\ track = FALSE /\ watch = FALSE

Next ==
    \/ \E t \in Threads :
          \/ Call(t, AllOps, ConcKeys, ConcValues)
          \/ IterItems(t, AllOps)
          \/ Abandon(t)
          \/ ThreadStep(t)
    \/ \E p \in Producers : ProducerStep(p)

Spec == Init /\ [][Next]_vars

\* Every operation in any interleaving, every consumer receiving until its
\* channel is closed and every visitor returning.  Fairness: the Go
\* scheduler runs every goroutine that can run, a consumer in its range loop
\* keeps receiving, and sync.RWMutex lets no reader starve (a reader blocked
\* behind a writer is admitted when that writer unlocks), hence the strong
\* fairness of the producer's read lock.
NextLive ==
    \/ \E t \in Threads :
          \/ Call(t, AllOps, Keys, ConcValues)
          \/ IterItems(t, AllOps)
          \/ ThreadStep(t)
    \/ \E p \in Producers : ProducerStep(p)

FairLive ==
    /\ \A t \in Threads :
          /\ WF_vars(LockStep(t) \/ LockWakeStep(t) \/ SetWrite(t)
                       \/ DeleteWrite(t) \/ FlushWrite(t) \/ PopPick(t)
                       \/ PopWrite(t) \/ GetRead(t) \/ SizeCount(t)
                       \/ EachVisit(t) \/ EachUnlock(t))
          /\ WF_vars(Recv(t))
          /\ WF_vars(RecvClosed(t))
    /\ \A p \in Producers :
          /\ SF_vars(RLockStep(p))
          /\ WF_vars(EachSend(p) \/ EachUnlock(p) \/ IterClose(p))

SpecLive == Init /\ [][NextLive]_vars /\ FairLive

----------------------------------------------------------------------------
(* What the claims speak of.                                               *)

\* The keys a container holds, its entries, and their number.
Present(its) == {k \in Keys : \E i \in DOMAIN its : k \in DOMAIN its[i]}
Entries(its) ==
    {e \in Keys \X Values : \E i \in DOMAIN its :
        e[1] \in DOMAIN its[i] /\ its[i][e[1]] = e[2]}
RECURSIVE SumLenFrom(_, _)
SumLenFrom(its, i) ==
    IF i \notin DOMAIN its THEN 0 ELSE MapLen(its[i]) + SumLenFrom(its, i + 1)
SumLen(its) == SumLenFrom(its, 0)

\* The elements of a sequence, and whether none occurs twice.
Range(q) == {q[j] : j \in 1..Len(q)}
NoDup(q) == \A a, b \in 1..Len(q) : q[a] = q[b] => a = b

\* The shard locks a goroutine holds.
HeldBy(g) == {i \in Shards : g \in readers[i] \/ writer[i] = g}

\* A goroutine is inside a critical section that writes, or reads, the map
\* of shard i.
Writing(g, i) == pc[g] = "write" /\ idx[g] = i
Reading(g, i) ==
    pc[g] \in {"read", "count", "range", "send", "unlock"} /\ idx[g] = i

----------------------------------------------------------------------------
(* The claims.                                                             *)

\* C1: with no Flush and no Pop called, a Get of k returns (v, true) exactly
\* when the last Set or Delete of k that took effect was Set(k, v), and
\* not-found when k was never set or was deleted last.
C1_GetReflectsLastWrite ==
    \A t \in Threads :
        (pc[t] = "ret" /\ op[t] = "Get" /\ ~flushedOrPopped)
        => ret[t] = (IF last[key[t]] = Nil THEN <<Nil, FALSE>>
                     ELSE <<last[key[t]], TRUE>>)

C1_Witness ==
    \E t \in Threads :
        /\ pc[t] = "ret" /\ op[t] = "Get" /\ ~flushedOrPopped
        /\ ret[t] = <<2, TRUE>>
        /\ \E k \in Keys \ {key[t]} : last[k] = Nil /\ locate(k) = locate(key[t])

\* C2: a Pop of a non-empty container with nothing concurrent returns an
\* entry that was present at the call, removes it and nothing else, and
\* leaves the size smaller by one.
C2_PopRemovesOne ==
    \A t \in Threads :
        (pc[t] = "ret" /\ op[t] = "Pop")
        => /\ <<ret[t][1], ret[t][2]>> \in Entries(pre[t])
           /\ ret[t][1] \notin Present(items)
           /\ \A i \in Shards : items[i] = MapDelete(pre[t][i], ret[t][1])
           /\ Entries(items) = Entries(pre[t]) \ {<<ret[t][1], ret[t][2]>>}
           /\ SumLen(items) = SumLen(pre[t]) - 1

C2_Witness ==
    \E t \in Threads :
        /\ pc[t] = "ret" /\ op[t] = "Pop"
        /\ SumLen(pre[t]) = 3 /\ SumLen(items) = 2

\* C3: a Pop of an empty container ends in the panic, without ever entering
\* its retry loop, returning nothing and changing no shard.
C3_PopEmptyPanics ==
    \A t \in Threads :
        (op[t] = "Pop" /\ SumLen(pre[t]) = 0)
        => /\ pc[t] \in {"rlock", "count", "panic"}
           /\ ret[t] = NoRet
           /\ items = pre[t]
           /\ HeldBy(t) = {} \/ pc[t] = "count"

C3_Witness ==
    \E t \in Threads :
        /\ op[t] = "Pop" /\ pc[t] = "panic"
        /\ SumLen(pre[t]) = 0 /\ HeldBy(t) = {}

\* C4: with nothing concurrent, Flush returns the number of entries held at
\* the call, and when it returns the size is 0 and no key is found.
C4_FlushReturnsSizeAndEmpties ==
    \A t \in Threads :
        (pc[t] = "ret" /\ op[t] = "Flush")
        => /\ ret[t] = <<SumLen(pre[t])>>
           /\ SumLen(items) = 0
           /\ \A k \in Keys : MapGet(items[locate(k)], k) = <<Nil, FALSE>>

C4_Witness ==
    \E t \in Threads :
        /\ pc[t] = "ret" /\ op[t] = "Flush" /\ ret[t] = <<3>>
        /\ \E i, j \in Shards : i # j /\ pre[t][i] # EmptyMap /\ pre[t][j] # EmptyMap

\* C5: with nothing in progress, Size returns the number of distinct keys
\* present, which, as long as no Flush and no Pop was called, is the number
\* of keys set and not deleted since.
C5_SizeCountsKeys ==
    \A t \in Threads :
        (pc[t] = "ret" /\ op[t] = "Size")
        => /\ ret[t] = <<Cardinality(Present(items))>>
           /\ ~flushedOrPopped
              => ret[t] = <<Cardinality({k \in Keys : last[k] # Nil})>>

C5_Witness ==
    \E t \in Threads :
        /\ pc[t] = "ret" /\ op[t] = "Size" /\ ret[t] = <<3>>
        /\ ~flushedOrPopped
        /\ \E i, j \in Shards : i # j /\ items[i] # EmptyMap /\ items[j] # EmptyMap

\* The items a full traversal by operation o must visit.
Expected(o, its) ==
    IF o = "EachKeyWithBreak" THEN {<<k>> : k \in Present(its)}
    ELSE Entries(its)

\* C6: with nothing mutating, a traversal whose visitor always answered true,
\* and a drained IterItems, visit each entry of the container once and
\* nothing else.
C6_FullTraversalVisitsEachOnce ==
    \A t \in Threads :
        /\ (pc[t] = "ret" /\ op[t] \in EachOps /\ ~stop[t])
           => /\ NoDup(visited[t])
              /\ {e[1] : e \in Range(visited[t])} = Expected(op[t], items)
        /\ (pc[t] = "ret" /\ op[t] = "IterItems")
           => /\ NoDup(recvd[t])
              /\ Range(recvd[t]) = Entries(items)

C6_Witness ==
    \E t \in Threads :
        /\ pc[t] = "ret" /\ op[t] = "IterItems"
        /\ Len(recvd[t]) = 3
        /\ \E i, j \in Shards : i # j /\ items[i] # EmptyMap /\ items[j] # EmptyMap

\* C7: once the visitor has answered false it is not called again in that
\* traversal (only the last recorded answer can be false), and all that is
\* left of the traversal is to unlock and return.
C7_EarlyExit ==
    \A t \in Threads :
        /\ \A j \in 1..(Len(visited[t]) - 1) : visited[t][j][2] = TRUE
        /\ stop[t] <=> (visited[t] # <<>> /\ visited[t][Len(visited[t])][2] = FALSE)
        /\ stop[t] => pc[t] \in {"unlock", "ret"}

C7_Witness ==
    \E t \in Threads :
        /\ pc[t] = "ret" /\ stop[t] /\ Len(visited[t]) = 1
        /\ op[t] = "EachKeyWithBreak"
        /\ MapLen(items[0]) = 2 /\ MapLen(items[1]) = 1

\* C8: a goroutine holds the lock of at most one shard, and holds none while
\* it asks for or waits for a lock.
C8_OneShardLockAtATime ==
    \A g \in Procs :
        /\ Cardinality(HeldBy(g)) <= 1
        /\ pc[g] \in {"rlock", "lock", "wait"} => HeldBy(g) = {}

C8_Witness ==
    \E t \in Threads :
        /\ op[t] = "Flush" /\ pc[t] = "write" /\ idx[t] = 1
        /\ HeldBy(t) = {1}
        /\ \E g \in Procs \ {t} : HeldBy(g) = {0}

\* C9: while a goroutine is in a critical section that writes shard i's map,
\* no other goroutine is in a critical section on that shard's map.
C9_WriterExcludesAll ==
    \A i \in Shards : \A g, h \in Procs :
        (g # h /\ Writing(g, i)) => ~Writing(h, i) /\ ~Reading(h, i)

\* Two goroutines read the same shard at once while a writer waits for it.
C9_Witness ==
    \E i \in Shards : \E g, h, w \in Procs :
        /\ g # h /\ Reading(g, i) /\ Reading(h, i)
        /\ w \in pending[i]

\* C10: when the consumers keep receiving, the goroutine of IterItems ends:
\* it closes its channel (closed only once it is past its last send), and
\* holds no shard lock from then on.
C10_IterItemsTerminates ==
    \A p \in Producers :
        /\ (chan[p] = "open") ~> (pc[p] = "done")
        /\ [](chan[p] = "closed" <=> pc[p] = "done")
        /\ [](pc[p] = "done" => HeldBy(p) = {} /\ cur[p] = NoItem)

C10_Witness ==
    \E p \in Producers : \E t \in Threads :
        /\ pc[p] = "done" /\ chan[p] = "closed" /\ HeldBy(p) = {}
        /\ pc[t] = "ret" /\ op[t] = "IterItems" /\ hnd[t] = p
        /\ SumLen(items) >= 2

----------------------------------------------------------------------------
(* Routing, over more keys and shard counts.                               *)

\* One caller that only looks keys up, in containers of 1 to 16 shards and
\* of the default count (NewWithShard(0)); the keys are the strings of up to
\* three of the bytes "a", "b", "-".
RouteBytes == {97, 98, 45}
RouteKeys ==
    {<<>>} \cup {<<a>> : a \in RouteBytes}
           \cup {<<a, b>> : a, b \in RouteBytes}
           \cup {<<a, b, c>> : a, b, c \in RouteBytes}
RouteShardArgs == {0, 1, 2, 4, 8, 16}

InitRoute ==
    InitCode(RouteShardArgs) /\ InitHist /\ track = FALSE /\ watch = FALSE

NextRoute ==
    \E t \in SeqThreads :
        \/ Call(t, {"Get", "Has"}, RouteKeys, Values)
        \/ RLockStep(t)
        \/ GetRead(t)
        \/ Return(t)

SpecRoute == InitRoute /\ [][NextRoute]_vars

\* A uint32 kept as limbs, modulo n.
ModN(h, n) == (((h[1] % n) * (Limb % n)) + (h[2] % n)) % n

\* A keyed operation between its m.locate(key) and its unlock.
InKeyedOp(t) ==
    op[t] \in KeyedOps /\ pc[t] \in {"rlock", "read", "lock", "wait", "write"}

\* C11: for a power-of-two shard count n, locate(key) is fnv32(key) mod n, an
\* index in [0, n); every keyed operation works on that shard, and the shard
\* count never changes.
C11_RoutingIsHashModCount ==
    /\ [](\A k \in RouteKeys :
            /\ locate(k) \in Shards
            /\ locate(k) = ModN(fnv32(k), shardCount))
    /\ [](\A t \in Threads :
            InKeyedOp(t) => idx[t] = ModN(fnv32(key[t]), shardCount))
    /\ [][shardCount' = shardCount]_vars

C11_Witness ==
    \E t \in Threads :
        /\ InKeyedOp(t) /\ pc[t] = "read"
        /\ Len(key[t]) = 3 /\ shardCount = defaultShardCount
        /\ idx[t] > 16 /\ t \in readers[idx[t]]

\* C12: a Delete never fails; a Delete of an absent key changes no shard;
\* after any Delete the key is absent, so that deleting it again changes
\* nothing.
C12_DeleteAbsentIsNoOp ==
    \A t \in Threads :
        op[t] = "Delete"
        => /\ pc[t] # "panic"
           /\ pc[t] = "ret"
              => /\ key[t] \notin Present(pre[t]) => items = pre[t]
                 /\ key[t] \notin Present(items)
                 /\ \A i \in Shards : DeleteNotLock(items[i], key[t]) = items[i]
                 /\ \A i \in Shards : items[i] = MapDelete(pre[t][i], key[t])

C12_Witness ==
    \E t \in Threads :
        /\ op[t] = "Delete" /\ pc[t] = "ret"
        /\ key[t] \notin Present(pre[t])
        /\ MapLen(items[locate(key[t])]) > 0
        /\ SumLen(items) = 2

\* Pop is in its loop for !found.
InPopLoop(t) == op[t] = "Pop" /\ pc[t] \in {"pick", "lock", "wait", "write"}

\* C13: once past its Size check Pop never panics, whatever was removed
\* since: it stays in its loop, and leaves it only with an entry of a shard
\* it found non-empty under the lock, so that with the container empty it
\* goes round until some Set has inserted an entry.
C13_PopSpinsWhenEmptied ==
    [][\A t \in Threads :
          InPopLoop(t)
          => /\ InPopLoop(t)' \/ pc'[t] = "ret"
             /\ pc'[t] = "ret"
                => /\ MapLen(items[idx[t]]) > 0
                   /\ ret'[t][1] \in DOMAIN items[idx[t]]
             /\ SumLen(items) = 0 => InPopLoop(t)']_vars

C13_Witness ==
    \E t \in Threads :
        /\ InPopLoop(t) /\ pc[t] = "write"
        /\ SumLen(items) = 0
        /\ \A g \in Procs \ {t} : pc[g] \in {"idle", "free"}

\* Goroutine g is at shard j: between choosing it and releasing its lock.
OnShard(g, j) ==
    /\ idx[g] = j
    /\ pc[g] \in {"rlock", "lock", "wait", "read", "count", "range", "send",
                  "unlock", "write"}

\* The next statement of the keyed operation of t.
KeyedStep(t) ==
    \/ RLockStep(t) \/ LockStep(t) \/ LockWakeStep(t)
    \/ GetRead(t) \/ SetWrite(t) \/ DeleteWrite(t)

\* C15: a Get, Has, Set or Delete on a key of shard j is never held up by
\* goroutines at other shards: when no other goroutine is at shard j, its
\* lock is free or held by the operation itself, and the operation's next
\* statement can run, wherever in Size, Flush, Pop or a traversal the others
\* are.
C15_OtherShardsDoNotBlock ==
    \A t \in Threads :
        (InKeyedOp(t) /\ \A g \in Procs \ {t} : ~OnShard(g, idx[t]))
        => /\ writer[idx[t]] \in {NoProc, t}
           /\ readers[idx[t]] \subseteq {t}
           /\ pending[idx[t]] \subseteq {t}
           /\ ENABLED KeyedStep(t)

C15_Witness ==
    \E t \in Threads, g \in Threads, p \in Producers :
        /\ op[t] = "Set" /\ pc[t] = "write" /\ idx[t] = 1
        /\ pc[p] = "send" /\ idx[p] = 0 /\ p \in readers[0]
        /\ op[g] = "Flush" /\ pc[g] = "wait" /\ idx[g] = 0 /\ g \in pending[0]

\* C17: every key stored in shard i is a key that locate sends to i, so a key
\* is stored in at most one shard, and Get, Has, Set and Delete of a key all
\* work on the shard that holds it.
C17_KeysLiveInTheirShard ==
    /\ \A i \in Shards : \A k \in DOMAIN items[i] : locate(k) = i
    /\ \A i, j \in Shards :
          i # j => DOMAIN items[i] \cap DOMAIN items[j] = {}
    /\ \A t \in Threads :
          InKeyedOp(t)
          => \A i \in Shards : key[t] \in DOMAIN items[i] => idx[t] = i

C17_Witness ==
    /\ \A i \in Shards : MapLen(items[i]) > 0
    /\ \E t \in Threads :
          /\ op[t] = "Delete" /\ pc[t] = "write"
          /\ key[t] \in DOMAIN items[idx[t]] /\ idx[t] = 1

\* The channel of p is open and no goroutine has it any more.
Orphan(p) == chan[p] = "open" /\ \A t \in Threads : hnd[t] # p

\* The goroutine of an IterItems nobody receives from has an entry in hand,
\* or one still to send from the shard it has locked.
Stuck(p) ==
    /\ Orphan(p)
    /\ pc[p] = "send" \/ (pc[p] = "range" /\ todo[p] # {})

\* C16: when the consumer has gone with an entry still to deliver, the
\* goroutine of IterItems goes as far as the send of that entry and stays
\* there for ever: it never ends and the channel is never closed.
C16_AbandonedProducerBlocksForever ==
    [][\A p \in Producers :
          Stuck(p)
          => /\ Stuck(p)'
             /\ pc'[p] \notin {"close", "done", "free"}
             /\ chan'[p] = "open"
             /\ pc[p] = "send"
                => pc'[p] = "send" /\ cur'[p] = cur[p] /\ todo'[p] = todo[p]
             /\ pc[p] = "range" => pc'[p] \in {"range", "send"}]_vars

C16_Witness ==
    \E p \in Producers, t \in Threads :
        /\ Stuck(p) /\ pc[p] = "send" /\ idx[p] = 0
        /\ MapLen(items[1]) > 0
        /\ op[t] = "Size" /\ pc[t] = "ret" /\ ret[t] = <<2>>

----------------------------------------------------------------------------
(* Writers and consumers that write in the body of their range loop.       *)

\* The consumer of a channel calls Set or Delete before its next receive.
CallInLoop(t, keys, vals) ==
    /\ pc[t] = "idle"
    /\ hnd[t] # NoProc
    /\ \E o \in {"Set", "Delete"} :
       \E k \in keys :
       \E v \in (IF o = "Set" THEN vals ELSE {Nil}) :
          /\ op' = [op EXCEPT ![t] = o]
          /\ key' = [key EXCEPT ![t] = k]
          /\ val' = [val EXCEPT ![t] = v]
          /\ idx' = [idx EXCEPT ![t] = FirstIdx(o, k)]
          /\ pc' = [pc EXCEPT ![t] = FirstPc(o)]
          /\ Hist([pre EXCEPT ![t] = items], last, flushedOrPopped,
                  [visited EXCEPT ![t] = <<>>], recvd)
    /\ UNCHANGED <<conVars, lockVars, size, todo, stop, cur, ret, chanVars>>

LoopOps == {"Set", "Delete", "Flush", "Pop", "IterItems"}

NextLoop ==
    \/ \E t \in Threads :
          \/ Call(t, LoopOps, ConcKeys, ConcValues)
          \/ CallInLoop(t, ConcKeys, ConcValues)
          \/ IterItems(t, LoopOps)
          \/ Abandon(t)
          \/ RLockStep(t) \/ LockStep(t) \/ LockWakeStep(t)
          \/ SetWrite(t) \/ DeleteWrite(t)
          \/ SizeCount(t) \/ FlushWrite(t) \/ PopPick(t) \/ PopWrite(t)
          \/ Recv(t) \/ RecvClosed(t)
          \/ Return(t)
    \/ \E p \in Producers : ProducerStep(p)

SpecLoop == Init /\ [][NextLoop]_vars

\* t is in Set, Delete, Flush or Pop, at the Lock() of the shard whose read
\* lock is held by a producer blocked in its send, and that producer's
\* channel is t's own or nobody's.
WriteBlocked(t) ==
    /\ op[t] \in {"Set", "Delete", "Flush", "Pop"}
    /\ pc[t] \in {"lock", "wait"}
    /\ \E p \in Producers :
          /\ pc[p] = "send" /\ idx[p] = idx[t]
          /\ Orphan(p) \/ hnd[t] = p

\* C19: the goroutine of IterItems blocked in its send holds the read lock of
\* the shard of the entry; until the entry is received no write changes that
\* shard; and a Set or Delete on that shard by the consumer itself, or by
\* anyone once the channel is abandoned, stays blocked for ever.
C19_SendHoldsReadLock ==
    /\ [](\A p \in Producers :
            pc[p] = "send"
            => /\ p \in readers[idx[p]] /\ writer[idx[p]] = NoProc
               /\ cur[p][1] \in DOMAIN items[idx[p]])
    /\ [][\A p \in Producers :
            pc[p] = "send" => items'[idx[p]] = items[idx[p]]]_vars
    /\ [][\A t \in Threads : WriteBlocked(t) => WriteBlocked(t)']_vars

C19_Witness ==
    \E t \in Threads :
        /\ hnd[t] # NoProc /\ WriteBlocked(t)
        /\ op[t] = "Delete" /\ pc[t] = "wait" /\ t \in pending[idx[t]]
        /\ pc[hnd[t]] = "send" /\ idx[hnd[t]] = idx[t]
        /\ cur[hnd[t]][1] = key[t]

----------------------------------------------------------------------------
(* A traversal and a writer, with what the traversal visits observed.      *)

\* One goroutine traverses (with a visitor, or as the consumer of
\* IterItems), the other one writes; two keys share shard 0.
Traverser == 1
SnapOps(t) ==
    IF t = Traverser THEN EachOps \cup {"IterItems"}
    ELSE {"Set", "Delete", "Flush", "Pop"}

InitSnap ==
    InitCode(ConcShardArgs) /\ InitHist /\ track = FALSE /\ watch = TRUE

\* seen[g] gets the item the visitor of g is given in this step.
WatchTraversal ==
    /\ seen' = [g \in Procs |->
                  IF op'[g] \notin EachOps \cup {"IterItems"} THEN {}
                  ELSE IF pc[g] = "range" /\ todo'[g] # todo[g]
                  THEN seen[g] \cup {ItemOf(op[g], items[idx[g]], k) :
                                        k \in todo[g] \ todo'[g]}
                  ELSE IF op'[g] # op[g] THEN {} ELSE seen[g]]
    /\ UNCHANGED <<held, lens, fate, popRet, flushRet>>

NextSnap ==
    \/ \E t \in Threads :
          \/ Call(t, SnapOps(t), Keys, Values) /\ WatchTraversal
          \/ IterItems(t, SnapOps(t)) /\ WatchTraversal
          \/ RLockStep(t) /\ WatchTraversal
          \/ LockStep(t) /\ WatchTraversal
          \/ LockWakeStep(t) /\ WatchTraversal
          \/ SetWrite(t) /\ WatchTraversal
          \/ DeleteWrite(t) /\ WatchTraversal
          \/ SizeCount(t) /\ WatchTraversal
          \/ FlushWrite(t) /\ WatchTraversal
          \/ PopPick(t) /\ WatchTraversal
          \/ PopWrite(t) /\ WatchTraversal
          \/ EachVisit(t) /\ WatchTraversal
          \/ EachUnlock(t) /\ WatchTraversal
          \/ Recv(t) /\ WatchTraversal
          \/ RecvClosed(t) /\ WatchTraversal
          \/ Return(t) /\ WatchTraversal
    \/ \E p \in Producers :
          \/ RLockStep(p) /\ WatchTraversal
          \/ EachSend(p) /\ WatchTraversal
          \/ EachUnlock(p) /\ WatchTraversal
          \/ IterClose(p) /\ WatchTraversal

SpecSnap == InitSnap /\ [][NextSnap]_vars

\* g is in the range over the map of shard idx[g].
Traversing(g) ==
    /\ op[g] \in EachOps \cup {"IterItems"}
    /\ pc[g] \in {"range", "send", "unlock"}

\* What the visitor of g has been given from the shard g is at; what the
\* range has still to yield, and what the shard holds, as the visitor would
\* be given them now.
SeenHere(g) == {e \in seen[g] : locate(e[1]) = idx[g]}
ToCome(g) == {ItemOf(op[g], items[idx[g]], k) : k \in todo[g]}
ContentNow(g) ==
    {ItemOf(op[g], items[idx[g]], k) : k \in DOMAIN items[idx[g]]}

\* C20: all through the visit of a shard, what was visited of it so far is
\* in it unchanged and, unless the traversal was stopped, what was visited
\* and what is still to come are exactly its content, each entry once: what
\* was visited when the range ends is the shard's content at that instant,
\* nothing of it having been added, removed or overwritten meanwhile.
C20_ShardSeenAtOneInstant ==
    \A g \in Procs :
        Traversing(g)
        => /\ SeenHere(g) \subseteq ContentNow(g)
           /\ todo[g] \subseteq DOMAIN items[idx[g]]
           /\ ~stop[g]
              => /\ SeenHere(g) \cup ToCome(g) = ContentNow(g)
                 /\ Cardinality(SeenHere(g)) + Cardinality(todo[g])
                       = MapLen(items[idx[g]])

\* The traversal ends its visit of the last shard, with a writer waiting for
\* it to leave; what it visited of the first shard has been overwritten
\* since: the shards were seen at different instants.
C20_Witness ==
    \E g \in Procs, t \in Threads :
        /\ Traversing(g) /\ ~stop[g] /\ todo[g] = {} /\ idx[g] = 1
        /\ SeenHere(g) = ContentNow(g) /\ SeenHere(g) # {}
        /\ Cardinality(seen[g]) = 3
        /\ \E e \in seen[g] :
              /\ Len(e) = 2 /\ e[1] \in DOMAIN items[0]
              /\ items[0][e[1]] # e[2]
        /\ op[t] = "Delete" /\ pc[t] = "wait" /\ idx[t] = idx[g]

----------------------------------------------------------------------------
(* Size against writers, with the counts of the container observed.        *)

SizeOps == {"Size", "Set", "Delete"}

InitSize ==
    InitCode(ConcShardArgs) /\ InitHist /\ track = FALSE /\ watch = TRUE

\* held[t] gets the number of entries the container has after this step, and
\* lens[t] the length of the shard t's Size has locked in this step.
WatchSize ==
    /\ held' = [t \in Threads |->
                  IF op'[t] # "Size" THEN {}
                  ELSE (IF op[t] = "Size" THEN held[t] ELSE {})
                          \cup {SumLen(items')}]
    /\ lens' = [t \in Threads |->
                  IF op'[t] # "Size" \/ op[t] # "Size" THEN <<>>
                  ELSE IF pc[t] = "rlock" /\ pc'[t] = "count"
                  THEN Append(lens[t], MapLen(items[idx[t]]))
                  ELSE lens[t]]
    /\ UNCHANGED <<seen, fate, popRet, flushRet>>

NextSize ==
    \E t \in Threads :
        \/ Call(t, SizeOps, ConcKeys, ConcValues) /\ WatchSize
        \/ RLockStep(t) /\ WatchSize
        \/ LockStep(t) /\ WatchSize
        \/ LockWakeStep(t) /\ WatchSize
        \/ SetWrite(t) /\ WatchSize
        \/ DeleteWrite(t) /\ WatchSize
        \/ SizeCount(t) /\ WatchSize
        \/ Return(t) /\ WatchSize

SpecSize == InitSize /\ [][NextSize]_vars

RECURSIVE SumSeq(_)
SumSeq(q) == IF q = <<>> THEN 0 ELSE Head(q) + SumSeq(Tail(q))

\* C14: Size returns the sum, over the shards in order, of the length each
\* shard had when Size took its read lock, the shard being unchanged from
\* that lock to the count; (the witness:) the sum need not be a number of
\* entries the container had at any instant of the call.
C14_SizeSumsPerShardCounts ==
    \A t \in Threads :
        op[t] = "Size"
        => /\ pc[t] = "count"
              => /\ Len(lens[t]) = idx[t] + 1
                 /\ MapLen(items[idx[t]]) = lens[t][Len(lens[t])]
                 /\ size[t] + MapLen(items[idx[t]]) = SumSeq(lens[t])
           /\ pc[t] = "rlock" => size[t] = SumSeq(lens[t])
           /\ pc[t] = "ret"
              => Len(lens[t]) = shardCount /\ ret[t] = <<SumSeq(lens[t])>>

\* Size returns 2 from a container that had one entry or none all through
\* the call.
C14_Witness ==
    \E t \in Threads :
        /\ op[t] = "Size" /\ pc[t] = "ret"
        /\ ret[t] = <<2>> /\ held[t] = {0, 1}
        /\ ret[t][1] \notin held[t]

----------------------------------------------------------------------------
(* Removals, with the fate of every inserted entry observed.               *)

RemoveOps == {"Set", "Delete", "Pop", "Flush"}

InitRemove ==
    InitCode(ConcShardArgs) /\ InitHist /\ track = FALSE /\ watch = TRUE

\* Every Set stores a value no Set has stored before, so that a value names
\* one inserted entry.
FreshValues ==
    Values \ ({val[t] : t \in Threads}
                 \cup {e[2] : e \in Entries(items)}
                 \cup {v \in Values : fate[v] # <<>>})

\* The entries this step removes from the container get the name of the
\* operation that removed them; popRet and flushRet get what a Pop or a Flush
\* returns in this step.
WatchRemoval ==
    /\ LET gone == Entries(items) \ Entries(items')
           remover == CHOOSE t \in Threads : pc[t] = "write" /\ pc'[t] # "write"
       IN  fate' = [v \in Values |->
                      IF \E e \in gone : e[2] = v
                      THEN Append(fate[v], op[remover]) ELSE fate[v]]
    /\ LET done(o) == {t \in Threads :
                          op[t] = o /\ pc[t] = "write" /\ pc'[t] = "ret"}
       IN  /\ popRet' = IF done("Pop") = {} THEN popRet
                        ELSE Append(popRet, ret'[CHOOSE t \in done("Pop") : TRUE][2])
           /\ flushRet' = IF done("Flush") = {} THEN flushRet
                          ELSE flushRet + ret'[CHOOSE t \in done("Flush") : TRUE][1]
    /\ UNCHANGED <<seen, held, lens>>

NextRemove ==
    \E t \in Threads :
        \/ Call(t, RemoveOps, ConcKeys, FreshValues) /\ WatchRemoval
        \/ RLockStep(t) /\ WatchRemoval
        \/ LockStep(t) /\ WatchRemoval
        \/ LockWakeStep(t) /\ WatchRemoval
        \/ SetWrite(t) /\ WatchRemoval
        \/ DeleteWrite(t) /\ WatchRemoval
        \/ SizeCount(t) /\ WatchRemoval
        \/ FlushWrite(t) /\ WatchRemoval
        \/ PopPick(t) /\ WatchRemoval
        \/ PopWrite(t) /\ WatchRemoval
        \/ Return(t) /\ WatchRemoval

SpecRemove == InitRemove /\ [][NextRemove]_vars

\* The entries a Flush still running has counted.
RECURSIVE FlushingFrom(_)
FlushingFrom(ts) ==
    IF ts = {} THEN 0
    ELSE LET t == CHOOSE u \in ts : TRUE
         IN  (IF op[t] = "Flush" THEN size[t] ELSE 0) + FlushingFrom(ts \ {t})

\* C18: an inserted entry is removed by one operation at most; no two Pops
\* return the same entry; an entry a Pop returned was removed by that Pop
\* and by nothing else; and the Flushes count exactly the entries the
\* Flushes removed, none of which a Pop returned.
C18_RemovedByOneOperation ==
    /\ \A v \in Values : Len(fate[v]) <= 1
    /\ NoDup(popRet)
    /\ \A v \in Values : v \in Range(popRet) <=> fate[v] = <<"Pop">>
    /\ Cardinality({v \in Values : fate[v] = <<"Flush">>})
          = flushRet + FlushingFrom(Threads)
    /\ \A e \in Entries(items) : fate[e[2]] = <<>>

\* A Pop and a Flush that ran together are both about to return: of the two
\* entries, the Pop has got one and the Flush has counted the other.
C18_Witness ==
    \E t, u \in Threads :
        /\ op[t] = "Pop" /\ pc[t] = "ret"
        /\ op[u] = "Flush" /\ pc[u] = "ret" /\ ret[u] = <<1>>
        /\ fate[ret[t][2]] = <<"Pop">>
        /\ \E v \in Values : fate[v] = <<"Flush">>
        /\ popRet = <<ret[t][2]>> /\ flushRet = 1

====
